---- MODULE Spec2Model ----
(***************************************************************************)
(* notion-ical: the two Source implementations (SourceAPI over the Notion  *)
(* API, SourceExport over an exported ZIP/CSV), the date range parser and  *)
(* the plain-text flattening of a page's block tree.                       *)
(*                                                                         *)
(* Go strings are sequences of one-character strings, so that ToLower,     *)
(* Contains, Compare, TrimSpace and time.Parse are computed on characters. *)
(* The arrow U+2192 is the single character ARROW.                         *)
(***************************************************************************)
EXTENDS Integers, Sequences, FiniteSets, TLC

VARIABLES
    source,     \* which Source the driver selected: "date" (parser alone), "export", "api"
    \* parseNotionDateRange applied to one input
    dateIn,     \* [r, zone]: the arguments
    dateOut,    \* NoResult, or [start, end, err]: what the call returned
    \* SourceExport
    xConfig,    \* ConfigSourceExport: [DateProperty, Zone]
    xArchive,   \* the files of the ZIP archive, in the order of archive.File: [Name, csv]
    xName,      \* the field name of the SourceExport
    xCSV,       \* the CSV file s.name opens: [lines]
    xPc,        \* "new", "rejected", and the position of ReadAll: "idle", "rows"
    xRow,       \* rows read so far by the running ReadAll
    xEvents,    \* the local slice events of the running ReadAll
    xKeys,      \* per row converted by the running ReadAll, eventFromCSVRow's locals dateKey and titleKey
    xRet,       \* what each finished ReadAll returned, in call order
    \* SourceAPI
    aConfig,    \* ConfigSourceAPI: [DateProperty, HideProperty]
    aService,   \* the remote database: [schema, rows, blocks]
    aPc,        \* "new", "ready", "query", "rows", "advance", "returned", "panic", "rejected"
    aQuery,     \* the DatabaseQuery of the running ReadAll: [StartCursor]
    aResponse,  \* the last DatabaseQueryResponse: [Results, HasMore, NextCursor]
    aIdx,       \* rows of aResponse already converted
    aEvents,    \* the local slice events of the running ReadAll
    aRet,       \* what ReadAll returned: NoResult or [events, err]
    aLog,       \* requests sent to the service by the running ReadAll, in order
    aErr        \* the error NewSourceAPI returned, Nil when it returned none

vars == <<source, dateIn, dateOut, xConfig, xArchive, xName, xCSV, xPc, xRow, xEvents, xKeys, xRet,
          aConfig, aService, aPc, aQuery, aResponse, aIdx, aEvents, aRet, aLog,
          aErr>>

dateVars == <<dateIn, dateOut>>
exportVars == <<xConfig, xArchive, xName, xCSV, xPc, xRow, xEvents, xKeys, xRet>>
apiVars == <<aConfig, aService, aPc, aQuery, aResponse, aIdx, aEvents, aRet, aLog,
          aErr>>

NoResult == [none |-> TRUE]
Nil == [nil |-> TRUE]

(***************************************************************************)
(* Strings                                                                 *)
(***************************************************************************)
ARROW == "U+2192"

\* The characters used, in byte order (strings.Compare compares bytes).
Alphabet ==
    <<" ", ",", "-", "/", "0", "1", "2", "3", "4", "5", "6", "7", "8", "9", ":",
      "A", "B", "C", "D", "E", "F", "G", "H", "I", "J", "K", "L", "M",
      "N", "O", "P", "Q", "R", "S", "T", "U", "V", "W", "X", "Y", "Z",
      "a", "b", "c", "d", "e", "f", "g", "h", "i", "j", "k", "l", "m",
      "n", "o", "p", "q", "r", "s", "t", "u", "v", "w", "x", "y", "z", ARROW>>

Ord(c) == CHOOSE i \in 1..Len(Alphabet) : Alphabet[i] = c

\* unicode.ToLower of the upper case letters
lowerOf ==
    ("A" :> "a") @@ ("B" :> "b") @@ ("C" :> "c") @@ ("D" :> "d") @@ ("E" :> "e")
    @@ ("F" :> "f") @@ ("G" :> "g") @@ ("H" :> "h") @@ ("I" :> "i") @@ ("J" :> "j")
    @@ ("K" :> "k") @@ ("L" :> "l") @@ ("M" :> "m") @@ ("N" :> "n") @@ ("O" :> "o")
    @@ ("P" :> "p") @@ ("Q" :> "q") @@ ("R" :> "r") @@ ("S" :> "s") @@ ("T" :> "t")
    @@ ("U" :> "u") @@ ("V" :> "v") @@ ("W" :> "w") @@ ("X" :> "x") @@ ("Y" :> "y")
    @@ ("Z" :> "z")

\* strings.ToLower
ToLower(s) == [i \in 1..Len(s) |-> IF s[i] \in DOMAIN lowerOf THEN lowerOf[s[i]] ELSE s[i]]

\* strings.Contains
Contains(s, sub) ==
    \E i \in 1..(Len(s) + 1) :
        i + Len(sub) - 1 <= Len(s) /\ SubSeq(s, i, i + Len(sub) - 1) = sub

\* strings.Compare(a, b) < 0
RECURSIVE StringLess(_, _)
StringLess(a, b) ==
    IF b = <<>> THEN FALSE
    ELSE IF a = <<>> THEN TRUE
    ELSE IF Ord(Head(a)) # Ord(Head(b)) THEN Ord(Head(a)) < Ord(Head(b))
    ELSE StringLess(Tail(a), Tail(b))

RECURSIVE cutspace(_)
cutspace(s) == IF s # <<>> /\ Head(s) = " " THEN cutspace(Tail(s)) ELSE s

RECURSIVE cutspaceRight(_)
cutspaceRight(s) ==
    IF s # <<>> /\ s[Len(s)] = " " THEN cutspaceRight(SubSeq(s, 1, Len(s) - 1)) ELSE s

\* strings.TrimSpace
TrimSpace(s) == cutspaceRight(cutspace(s))

\* strings.SplitN(r, sep, 2) for a one-character separator
SplitN2(r, sep) ==
    IF \E i \in 1..Len(r) : r[i] = sep
    THEN LET i == CHOOSE j \in 1..Len(r) : r[j] = sep /\ \A k \in 1..(j - 1) : r[k] # sep
         IN  <<SubSeq(r, 1, i - 1), SubSeq(r, i + 1, Len(r))>>
    ELSE <<r>>

DigitChars == <<"0", "1", "2", "3", "4", "5", "6", "7", "8", "9">>

\* time.isDigit(s, i), 0-based i
isDigit(s, i) == i + 1 <= Len(s) /\ \E d \in 1..10 : DigitChars[d] = s[i + 1]

digitVal(c) == (CHOOSE d \in 1..10 : DigitChars[d] = c) - 1

\* fmt of a non-negative number in exactly w decimal digits
RECURSIVE Digits(_, _)
Digits(n, w) == IF w = 0 THEN <<>> ELSE Digits(n \div 10, w - 1) \o <<DigitChars[(n % 10) + 1]>>

(***************************************************************************)
(* package time, as far as parseNotionDateRange uses it                    *)
(***************************************************************************)
longMonthNames ==
    << <<"J","a","n","u","a","r","y">>, <<"F","e","b","r","u","a","r","y">>,
       <<"M","a","r","c","h">>, <<"A","p","r","i","l">>, <<"M","a","y">>,
       <<"J","u","n","e">>, <<"J","u","l","y">>, <<"A","u","g","u","s","t">>,
       <<"S","e","p","t","e","m","b","e","r">>, <<"O","c","t","o","b","e","r">>,
       <<"N","o","v","e","m","b","e","r">>, <<"D","e","c","e","m","b","e","r">> >>

daysIn(month, year) ==
    IF month = 2
    THEN (IF year % 4 = 0 /\ (year % 100 # 0 \/ year % 400 = 0) THEN 29 ELSE 28)
    ELSE IF month \in {4, 6, 9, 11} THEN 30 ELSE 31

\* time.Date for fields already in range
Date(year, month, day, hour, min, sec, loc) ==
    [year |-> year, month |-> month, day |-> day,
     hour |-> hour, min |-> min, sec |-> sec, loc |-> loc]

\* The zero time.Time
ZeroTime == Date(1, 1, 1, 0, 0, 0, 0)

\* The instant of t: its minute, counted from the start of year 0 and shifted by the
\* zone offset (in minutes east of UTC), and its second within that minute
RECURSIVE daysBeforeMonth(_, _)
daysBeforeMonth(month, year) ==
    IF month = 1 THEN 0 ELSE daysBeforeMonth(month - 1, year) + daysIn(month - 1, year)

daysBeforeYear(year) ==
    year * 365 + ((year + 3) \div 4) - ((year + 99) \div 100) + ((year + 399) \div 400)

InstantMinute(t) ==
    ((daysBeforeYear(t.year) + daysBeforeMonth(t.month, t.year) + (t.day - 1)) * 24
     + t.hour) * 60 + t.min - t.loc

\* t.Before(u)
Before(t, u) ==
    \/ InstantMinute(t) < InstantMinute(u)
    \/ InstantMinute(t) = InstantMinute(u) /\ t.sec < u.sec

\* t.MarshalText(): RFC 3339
MarshalText(t) ==
    Digits(t.year, 4) \o <<"-">> \o Digits(t.month, 2) \o <<"-">> \o Digits(t.day, 2)
    \o <<"T">> \o Digits(t.hour, 2) \o <<":">> \o Digits(t.min, 2) \o <<":">>
    \o Digits(t.sec, 2)
    \o (IF t.loc = 0 THEN <<"Z">>
        ELSE <<"+">> \o Digits(t.loc \div 60, 2) \o <<":">> \o Digits(t.loc % 60, 2))

Std(name) == [k |-> "std", v |-> name]
Lit(c) == [k |-> "lit", v |-> c]

\* time.getnum
getnum(s, fixed) ==
    IF ~isDigit(s, 0) THEN [ok |-> FALSE, n |-> 0, rest |-> s]
    ELSE IF ~isDigit(s, 1)
         THEN IF fixed THEN [ok |-> FALSE, n |-> 0, rest |-> s]
              ELSE [ok |-> TRUE, n |-> digitVal(s[1]), rest |-> Tail(s)]
    ELSE [ok |-> TRUE, n |-> digitVal(s[1]) * 10 + digitVal(s[2]), rest |-> Tail(Tail(s))]

\* The index of the first name of longMonthNames that is a prefix of value, letters
\* compared without case; 0 when there is none
monthIndex(value) ==
    LET hit(i) == Len(value) >= Len(longMonthNames[i])
                  /\ ToLower(SubSeq(value, 1, Len(longMonthNames[i]))) = ToLower(longMonthNames[i])
    IN  IF \E i \in 1..12 : hit(i)
        THEN CHOOSE j \in 1..12 : hit(j) /\ \A k \in 1..(j - 1) : ~hit(k)
        ELSE 0

\* time.lookup(longMonthNames, value)
lookupAt(value, i) ==
    IF i = 0 THEN [ok |-> FALSE, n |-> 0, rest |-> value]
    ELSE [ok |-> TRUE, n |-> i, rest |-> SubSeq(value, Len(longMonthNames[i]) + 1, Len(value))]

lookupMonth(value) == lookupAt(value, monthIndex(value))

\* A number r read by getnum or lookup stored in a field of the parse state, unless
\* reading it failed or it is out of range (time.Parse's rangeErrString)
storeNum(st, r, field, inRange) ==
    IF r.ok /\ inRange
    THEN [st EXCEPT !.value = r.rest, ![field] = r.n]
    ELSE [st EXCEPT !.ok = FALSE]

\* time.skip for one character of the layout: a space stands for any run of spaces
skipChar(st, c) ==
    IF c = " "
    THEN IF st.value # <<>> /\ Head(st.value) # " " THEN [st EXCEPT !.ok = FALSE]
         ELSE [st EXCEPT !.value = cutspace(st.value)]
    ELSE IF st.value = <<>> \/ Head(st.value) # c THEN [st EXCEPT !.ok = FALSE]
         ELSE [st EXCEPT !.value = Tail(st.value)]

\* stdLongYear: exactly four digits
parseYear(st) ==
    IF Len(st.value) < 4 \/ \E i \in 0..3 : ~isDigit(st.value, i) THEN [st EXCEPT !.ok = FALSE]
    ELSE [st EXCEPT !.value = SubSeq(st.value, 5, Len(st.value)),
                    !.year = digitVal(st.value[1]) * 1000 + digitVal(st.value[2]) * 100
                             + digitVal(st.value[3]) * 10 + digitVal(st.value[4])]

\* stdPM
parsePM(st) ==
    IF Len(st.value) < 2 THEN [st EXCEPT !.ok = FALSE]
    ELSE IF SubSeq(st.value, 1, 2) = <<"P", "M">>
         THEN [st EXCEPT !.value = SubSeq(st.value, 3, Len(st.value)), !.pmSet = TRUE]
    ELSE IF SubSeq(st.value, 1, 2) = <<"A", "M">>
         THEN [st EXCEPT !.value = SubSeq(st.value, 3, Len(st.value)), !.amSet = TRUE]
    ELSE [st EXCEPT !.ok = FALSE]

numInRange(chunk, n) ==
    CASE chunk = "stdZeroMonth" -> ~(n <= 0 \/ 12 < n)
      [] chunk = "stdHour" -> ~(n < 0 \/ 24 <= n)
      [] chunk = "stdHour12" -> ~(n < 0 \/ 12 < n)
      [] chunk = "stdZeroMinute" -> ~(n < 0 \/ 60 <= n)
      [] OTHER -> TRUE     \* the day is validated once the date is complete

numField(chunk) ==
    CASE chunk = "stdZeroMonth" -> "month"
      [] chunk \in {"stdDay", "stdZeroDay"} -> "day"
      [] chunk \in {"stdHour", "stdHour12"} -> "hour"
      [] OTHER -> "min"

\* A standard chunk that is a number of one or two digits; the Zero chunks take two
parseNum(st, chunk, r) == storeNum(st, r, numField(chunk), numInRange(chunk, r.n))

\* One chunk of a layout applied to the parse state st (time.Parse's loop body):
\* a literal character of the layout or a standard chunk.
parseChunk(chunk, st) ==
    IF chunk.k = "lit" THEN skipChar(st, chunk.v)
    ELSE IF chunk.v = "stdLongMonth" THEN storeNum(st, lookupMonth(st.value), "month", TRUE)
    ELSE IF chunk.v = "stdLongYear" THEN parseYear(st)
    ELSE IF chunk.v = "stdPM" THEN parsePM(st)
    ELSE parseNum(st, chunk.v,
                  getnum(st.value, chunk.v \in {"stdZeroMonth", "stdZeroDay", "stdZeroMinute"}))

RECURSIVE parseChunks(_, _, _)
parseChunks(layout, i, st) ==
    IF ~st.ok \/ i > Len(layout) THEN st
    ELSE parseChunks(layout, i + 1, parseChunk(layout[i], st))

\* The hour once PM or AM is known
hourOf(st) ==
    IF st.pmSet /\ st.hour < 12 THEN st.hour + 12
    ELSE IF st.amSet /\ st.hour = 12 THEN 0
    ELSE st.hour

\* A month or day the layout does not hold is 1
orOne(n) == IF n < 0 THEN 1 ELSE n

\* The end of time.Parse: no text may be left, and the day must exist in the month
parseEnd(st, loc) ==
    IF ~st.ok \/ st.value # <<>> THEN [ok |-> FALSE, t |-> ZeroTime]
    ELSE IF orOne(st.day) < 1 \/ orOne(st.day) > daysIn(orOne(st.month), st.year)
         THEN [ok |-> FALSE, t |-> ZeroTime]
    ELSE [ok |-> TRUE,
          t |-> Date(st.year, orOne(st.month), orOne(st.day), hourOf(st), st.min, 0, loc)]

\* time.ParseInLocation(layout, value, loc): [ok, t]
ParseInLocation(layout, value, loc) ==
    parseEnd(parseChunks(layout, 1,
                         [value |-> value, ok |-> TRUE, year |-> 0, month |-> -1, day |-> -1,
                          hour |-> 0, min |-> 0, pmSet |-> FALSE, amSet |-> FALSE]),
             loc)

(***************************************************************************)
(* The date range parser (parseNotionDateRange and its helpers)            *)
(***************************************************************************)
\* notionTimeFormats = {"15:04", "3:00 PM"}, as time.Parse chunks each layout:
\* in "3:00 PM" the text ":00 " is literal, since "00" is no standard chunk.
notionTimeFormats ==
    << <<Std("stdHour"), Lit(":"), Std("stdZeroMinute")>>,
       <<Std("stdHour12"), Lit(":"), Lit("0"), Lit("0"), Lit(" "), Std("stdPM")>> >>

\* notionDateFormats = {"January 2, 2006", "2006/01/02"}
notionDateFormats ==
    << <<Std("stdLongMonth"), Lit(" "), Std("stdDay"), Lit(","), Lit(" "), Std("stdLongYear")>>,
       <<Std("stdLongYear"), Lit("/"), Std("stdZeroMonth"), Lit("/"), Std("stdZeroDay")>> >>

ErrParseDate(d) == [kind |-> "ErrParseDate", arg |-> d]

\* The layouts parseNotionDate tries, in the order of its two nested loops:
\* f := fd + " " + ft
dateTimeLayouts ==
    [n \in 1..(Len(notionDateFormats) * Len(notionTimeFormats)) |->
        notionDateFormats[((n - 1) \div Len(notionTimeFormats)) + 1]
        \o <<Lit(" ")>>
        \o notionTimeFormats[((n - 1) % Len(notionTimeFormats)) + 1]]

\* The loop over the layouts from the n-th on, p being what the n-th made of d:
\* the first layout that parses d wins, and there is an error when none does
RECURSIVE firstParseFrom(_, _, _, _, _)
firstParseFrom(layouts, n, d, zone, p) ==
    IF p.ok THEN [t |-> p.t, err |-> Nil]
    ELSE IF n >= Len(layouts) THEN [t |-> ZeroTime, err |-> ErrParseDate(d)]
    ELSE firstParseFrom(layouts, n + 1, d, zone, ParseInLocation(layouts[n + 1], d, zone))

parseNotionDate(d, zone) ==
    firstParseFrom(dateTimeLayouts, 1, TrimSpace(d), zone,
                   ParseInLocation(dateTimeLayouts[1], TrimSpace(d), zone))

parseNotionTime(d, zone) ==
    firstParseFrom(notionTimeFormats, 1, TrimSpace(d), zone,
                   ParseInLocation(notionTimeFormats[1], TrimSpace(d), zone))

\* A merge that keeps the day of the time-only value
mergeKeepsTimeDay(date, t) ==
    Date(t.year, t.month, t.day, t.hour, t.min, t.sec, t.loc)

mergeNotionDateTime(date, t) ==
    Date(date.year, date.month, date.day, t.hour, t.min, t.sec, t.loc)

\* parseNotionDateRange from its second parse on: d2 is parts[1] parsed as a date and
\* tm is parts[1] parsed as a time, which the code computes only when d2 failed
rangeEnd(t1, d2, tm) ==
    IF d2.err = Nil THEN [start |-> t1, end |-> d2.t, err |-> Nil]
    ELSE IF tm.err # Nil THEN [start |-> ZeroTime, end |-> ZeroTime, err |-> tm.err]
    ELSE [start |-> t1, end |-> mergeNotionDateTime(t1, tm.t), err |-> Nil]

\* parseNotionDateRange after its first parse, r1 being parts[0] parsed as a date
rangeFrom(parts, zone, r1) ==
    IF r1.err # Nil THEN [start |-> ZeroTime, end |-> ZeroTime, err |-> r1.err]
    ELSE IF Len(parts) = 2
         THEN rangeEnd(r1.t, parseNotionDate(parts[2], zone), parseNotionTime(parts[2], zone))
    ELSE [start |-> r1.t, end |-> r1.t, err |-> Nil]

rangeOfParts(parts, zone) == rangeFrom(parts, zone, parseNotionDate(parts[1], zone))

parseNotionDateRange(r, zone) == rangeOfParts(SplitN2(r, ARROW), zone)

(***************************************************************************)
(* Inputs of the parser                                                    *)
(***************************************************************************)
sLongPM == <<"J","a","n","u","a","r","y"," ","2",","," ","2","0","2","3"," ","3",":","0","0"," ","P","M">>
sLong24 == <<"J","a","n","u","a","r","y"," ","2",","," ","2","0","2","3"," ","1","5",":","0","4">>
sSlash24 == <<"2","0","2","3","/","0","1","/","0","2"," ","1","5",":","0","4">>
sSlashAM == <<"2","0","2","3","/","0","1","/","0","2"," ","9",":","0","0"," ","A","M">>
sSlashEarlier == <<"2","0","2","3","/","0","1","/","0","1"," ","1","0",":","0","0">>
sLongLater == <<"M","a","r","c","h"," ","5",","," ","2","0","2","4"," ","1","2",":","0","0"," ","A","M">>
sSlashOnly == <<"2","0","2","3","/","0","1","/","0","2">>
sLongOnly == <<"J","a","n","u","a","r","y"," ","2",","," ","2","0","2","3">>
sHalfPM == <<"J","a","n","u","a","r","y"," ","2",","," ","2","0","2","3"," ","3",":","3","0"," ","P","M">>
sBadDay == <<"F","e","b","r","u","a","r","y"," ","3","0",","," ","2","0","2","3"," ","1","0",":","0","0">>
sNotADate == <<"n","o","t"," ","a"," ","d","a","t","e">>
sTime5PM == <<"5",":","0","0"," ","P","M">>
sTime1PM == <<"1",":","0","0"," ","P","M">>
sTime17 == <<"1","7",":","0","0">>
sTime0930 == <<"0","9",":","3","0">>
sTime530PM == <<"5",":","3","0"," ","P","M">>

\* Texts with a date: with a time in either time format, date-only, and malformed
DateTexts ==
    {sLongPM, sLong24, sSlash24, sSlashAM, sSlashEarlier, sLongLater,
     sSlashOnly, sLongOnly, sHalfPM, sBadDay, sNotADate}

\* Texts with a time of day only
TimeTexts == {sTime5PM, sTime1PM, sTime17, sTime0930, sTime530PM,
              <<"2","5",":","0","0">>}

\* "left", and "left -> right" as Notion writes it, with a space on each side of the arrow
Range(left, right) == left \o <<" ", ARROW, " ">> \o right

DateInputs ==
    DateTexts \cup {Range(l, rt) : l \in DateTexts, rt \in DateTexts \cup TimeTexts}

\* Zone offsets, in minutes east of UTC
Zones == {0, 480}

(***************************************************************************)
(* The parser applied to one input                                         *)
(***************************************************************************)
IdleExport ==
    /\ xConfig = Nil /\ xArchive = <<>> /\ xName = <<>> /\ xCSV = Nil
    /\ xPc = "idle" /\ xRow = 0
    /\ xEvents = <<>> /\ xKeys = <<>> /\ xRet = <<>>

IdleAPI ==
    /\ aConfig = Nil /\ aService = Nil /\ aPc = "new" /\ aQuery = Nil
    /\ aResponse = Nil /\ aIdx = 0 /\ aEvents = <<>> /\ aRet = NoResult /\ aLog = <<>>
    /\ aErr = Nil

IdleDate == dateIn = Nil /\ dateOut = NoResult

InitDate ==
    /\ source = "date"
    /\ \E r \in DateInputs, zone \in Zones : dateIn = [r |-> r, zone |-> zone]
    /\ dateOut = NoResult
    /\ IdleExport /\ IdleAPI

ParseRange ==
    /\ source = "date"
    /\ dateOut = NoResult
    /\ dateOut' = parseNotionDateRange(dateIn.r, dateIn.zone)
    /\ UNCHANGED <<source, dateIn, exportVars, apiVars>>

NextDate == ParseRange

SpecDate == InitDate /\ [][NextDate]_vars

(***************************************************************************)
(* SourceExport                                                            *)
(***************************************************************************)
ErrNoDateProperty == [kind |-> "ErrNoDateProperty"]
ErrNoTitleProperty == [kind |-> "ErrNoTitleProperty"]
ErrCSVRead(what) == [kind |-> "ErrCSVRead", arg |-> what]

\* The literals eventFromCSVRow passes to findFirstColumn
dateColumnNames == << <<"d","a","t","e">>, <<"w","h","e","n">>, <<"p","e","r","i","o","d">> >>
titleColumnNames == << <<"n","a","m","e">>, <<"t","i","t","l","e">> >>

\* A row of the CSV file as encoding/csv returns it: csv.Reader fixes the number of
\* fields per record by the first record it reads and fails on any other count.
csvRead(csv, n) ==
    IF n > Len(csv.lines) THEN [record |-> <<>>, err |-> [kind |-> "EOF"]]
    ELSE IF n > 1 /\ Len(csv.lines[n]) # Len(csv.lines[1])
         THEN [record |-> csv.lines[n], err |-> [kind |-> "ErrFieldCount"]]
    ELSE [record |-> csv.lines[n], err |-> Nil]

\* m[key] = value for each column in turn: a later column of the same name overwrites
headersAndRecordToMap(headers, record) ==
    IF Len(headers) # Len(record)
    THEN [m |-> Nil, err |-> ErrCSVRead("unmatching header and record length")]
    ELSE [m |-> [key \in {headers[i] : i \in 1..Len(headers)} |->
                    record[CHOOSE i \in 1..Len(headers) :
                              headers[i] = key /\ \A j \in (i + 1)..Len(headers) : headers[j] # key]],
          err |-> Nil]

\* One order in which a range statement may visit a set of keys: Go leaves the
\* iteration order of a map unspecified and varies it from one range to the next.
RECURSIVE someOrder(_)
someOrder(keys) ==
    IF keys = {} THEN <<>>
    ELSE LET k == CHOOSE key \in keys : TRUE
         IN  <<k>> \o someOrder(keys \ {k})

\* One of findFirstColumn's two loops, visiting the keys in the given order:
\* the first key visited that matches any of names; found = FALSE when none does.
findColumnLoop(names, m, order, exact) ==
    LET match(key) ==
            \E q \in 1..Len(names) :
                IF exact THEN ToLower(key) = ToLower(names[q])
                ELSE Contains(ToLower(key), ToLower(names[q]))
        hits == {i \in 1..Len(order) : match(order[i])}
    IN  IF hits # {}
        THEN LET i == CHOOSE j \in hits : \A k \in hits : j <= k
             IN  [found |-> TRUE, key |-> order[i], value |-> m[order[i]]]
        ELSE [found |-> FALSE, key |-> <<>>, value |-> <<>>]

\* What findFirstColumn returns, first and second being what its first and its
\* second loop find
firstFound(first, second) == IF first.found THEN first ELSE second

\* findFirstColumn(names, m), with orders[1] the order of the first range statement
\* and orders[2] that of the second
findFirstColumn(names, m, orders) ==
    firstFound(findColumnLoop(names, m, orders[1], TRUE),
               findColumnLoop(names, m, orders[2], FALSE))

\* One pair of orders for each column findFirstColumn can return. Whichever column
\* it returns under some pair of orders, it returns under the pair that visits that
\* column first in both range statements: the column matches in the loop that
\* returned it, and no column matched in a loop before that one. So the pairs that
\* visit first a column they return reach every column a call can return, and
\* orders that make it return the same column cannot be told apart afterwards.
\* When no column matches, every order returns nothing.
ColumnOrders(names, m) ==
    LET first(key) == <<key>> \o someOrder(DOMAIN m \ {key})
        returned == {key \in DOMAIN m :
                        findFirstColumn(names, m, <<first(key), first(key)>>).key = key}
    IN  IF returned = {} THEN {<<someOrder(DOMAIN m), someOrder(DOMAIN m)>>}
        ELSE {<<first(key), first(key)>> : key \in returned}

exportProperty(key, value) == [name |-> key, value |-> value]

\* sha256.Sum256 then hex.EncodeToString: taken as free of collisions
Sha256Hex(bytes) == [sha256 |-> bytes]

\* A properties loop that leaves out the date column only
RECURSIVE propertiesKeepTitle(_, _, _, _, _)
propertiesKeepTitle(headers, record, dateKey, titleKey, i) ==
    IF i > Len(headers) THEN <<>>
    ELSE IF headers[i] = dateKey
         THEN propertiesKeepTitle(headers, record, dateKey, titleKey, i + 1)
    ELSE <<exportProperty(headers[i], record[i])>>
         \o propertiesKeepTitle(headers, record, dateKey, titleKey, i + 1)

\* The loop that generates the properties list, from column i on
RECURSIVE propertiesLoop(_, _, _, _, _)
propertiesLoop(headers, record, dateKey, titleKey, i) ==
    IF i > Len(headers) THEN <<>>
    ELSE IF headers[i] = dateKey \/ headers[i] = titleKey
         THEN propertiesLoop(headers, record, dateKey, titleKey, i + 1)
    ELSE <<exportProperty(headers[i], record[i])>>
         \o propertiesLoop(headers, record, dateKey, titleKey, i + 1)

NoEvent == [ID |-> Nil, Title |-> <<>>, Emoji |-> <<>>, URL |-> <<>>,
            Start |-> ZeroTime, End |-> ZeroTime, Content |-> <<>>, Properties |-> <<>>]

\* eventFromCSVRow returning Event{} and an error
rowError(err) == [event |-> NoEvent, err |-> err, dateKey |-> <<>>, titleKey |-> <<>>]

\* The ID generated from the title and the start date
exportID(title, start) == <<Sha256Hex(title \o MarshalText(start)), "@notion-ical-export">>

\* eventFromCSVRow from the parsed date range on; tcol is the title column found
rowEvent(headers, record, dateKey, parsed, tcol) ==
    IF parsed.err # Nil THEN rowError(parsed.err)
    ELSE IF tcol.key = <<>> THEN rowError(ErrNoTitleProperty)
    ELSE [event |-> [ID |-> exportID(tcol.value, parsed.start),
                     Title |-> tcol.value, Emoji |-> <<>>, URL |-> <<>>,
                     Start |-> parsed.start, End |-> parsed.end,
                     Content |-> <<>>,
                     Properties |-> propertiesLoop(headers, record, dateKey, tcol.key, 1)],
          err |-> Nil, dateKey |-> dateKey, titleKey |-> tcol.key]

\* The date column: found among the synonyms when no DateProperty is configured,
\* and else the column of that very name
dateColumn(config, m, dateOrders) ==
    IF config.DateProperty = <<>> THEN findFirstColumn(dateColumnNames, m, dateOrders)
    ELSE IF config.DateProperty \in DOMAIN m
         THEN [found |-> TRUE, key |-> config.DateProperty, value |-> m[config.DateProperty]]
    ELSE [found |-> FALSE, key |-> config.DateProperty, value |-> <<>>]

\* eventFromCSVRow from the date column dcol on
rowFromDate(config, headers, record, m, titleOrders, dcol) ==
    IF ~dcol.found THEN rowError(ErrNoDateProperty)
    ELSE rowEvent(headers, record, dcol.key,
                  parseNotionDateRange(dcol.value, config.Zone),
                  findFirstColumn(titleColumnNames, m, titleOrders))

\* eventFromCSVRow from the map hm of the row on
rowFromMap(config, headers, record, dateOrders, titleOrders, hm) ==
    IF hm.err # Nil THEN rowError(hm.err)
    ELSE rowFromDate(config, headers, record, hm.m, titleOrders,
                     dateColumn(config, hm.m, dateOrders))

\* eventFromCSVRow; dateOrders and titleOrders are the map iteration orders of its
\* two findFirstColumn calls. dateKey and titleKey are its locals of those names.
eventFromCSVRow(config, headers, record, dateOrders, titleOrders) ==
    rowFromMap(config, headers, record, dateOrders, titleOrders,
               headersAndRecordToMap(headers, record))

(***************************************************************************)
(* CSV files read by SourceExport                                          *)
(***************************************************************************)
hEventName == <<"E","v","e","n","t"," ","N","a","m","e">>
hWhen == <<"W","h","e","n">>
hNotes == <<"N","o","t","e","s">>
hName == <<"N","a","m","e">>
hTitle == <<"T","i","t","l","e">>
hDate == <<"D","a","t","e">>
hZebra == <<"Z","e","b","r","a">>
hAlpha == <<"A","l","p","h","a">>

HeaderRows ==
    { <<hEventName, hWhen, hNotes>>,       \* the example of the specification
      <<hName, hTitle, hDate>>,            \* two columns equal to a title synonym
      <<hZebra, hDate, hAlpha, hName>>,    \* other columns out of alphabetical order
      <<hWhen, hDate, hName>>,             \* two columns equal to a date synonym
      << <<"U","p","d","a","t","e","d">>, <<"E","v","e","n","t"," ","D","a","t","e">>,
         hTitle>>,                         \* two columns that only contain "date"
      <<hName, hDate, hDate>>,             \* a column name that occurs twice
      <<hNotes, hName>>,                   \* no date column
      <<hWhen, hNotes>> }                  \* no title column

\* Number of data rows of a CSV file
MaxRows == 2

\* Number of times ReadAll is called on one SourceExport
MaxReadAlls == 2

isDateLike(h) ==
    \E q \in 1..Len(dateColumnNames) : Contains(ToLower(h), dateColumnNames[q])

\* A data row under headers: the first date-like column holds the text d, any other
\* date-like column another date, and every other column a text of its own
dataRow(headers, d, tag) ==
    [i \in 1..Len(headers) |->
        IF isDateLike(headers[i])
        THEN IF \A j \in 1..(i - 1) : ~isDateLike(headers[j]) THEN d ELSE sSlashAM
        ELSE <<headers[i][1], tag>>]

DataRows(headers) ==
    { dataRow(headers, sSlash24, "1"),
      dataRow(headers, Range(sLongPM, sTime5PM), "2"),
      dataRow(headers, sNotADate, "3"),
      Tail(dataRow(headers, sSlash24, "4")) }    \* a record with a field too few

CSVFiles ==
    { [lines |-> <<>>] }     \* an empty file
    \cup
    UNION { { [lines |-> <<headers>> \o rows] :
                rows \in UNION { [1..n -> DataRows(headers)] : n \in 0..MaxRows } } :
            headers \in HeaderRows }

\* A file of the archive; csv is what it holds when it is a CSV file
archiveFile(name, csv) == [Name |-> name, csv |-> csv]

\* The archives: one CSV file; other files and two CSV files in either order; no
\* CSV file; no file
Archives ==
    { <<archiveFile(<<"a", ".", "c", "s", "v">>, csv)>> : csv \in CSVFiles }
    \cup
    { <<archiveFile(<<"r", ".", "m", "d">>, Nil),
        archiveFile(<<"a", ".", "c", "s", "v">>, [lines |-> <<<<hName, hDate>>, <<hAlpha, sSlash24>>>>]),
        archiveFile(<<"c", "s", "v">>, Nil),
        archiveFile(<<"b", ".", "c", "s", "v">>, [lines |-> <<<<hName, hDate>>, <<hZebra, sSlashAM>>>>])>>,
      <<archiveFile(<<"b", ".", "c", "s", "v">>, [lines |-> <<<<hName, hDate>>, <<hZebra, sSlashAM>>>>]),
        archiveFile(<<"a", ".", "c", "s", "v">>, [lines |-> <<<<hName, hDate>>, <<hAlpha, sSlash24>>>>])>>,
      <<archiveFile(<<"r", ".", "m", "d">>, Nil), archiveFile(<<"c", "s", "v">>, Nil)>>,
      <<>> }

InitExport ==
    /\ source = "export"
    /\ \E dp \in {<<>>, hWhen}, zone \in Zones :
           xConfig = [DateProperty |-> dp, Zone |-> zone]
    /\ xArchive \in Archives
    /\ xName = <<>> /\ xCSV = Nil
    /\ xPc = "new" /\ xRow = 0 /\ xEvents = <<>> /\ xKeys = <<>> /\ xRet = <<>>
    /\ IdleDate /\ IdleAPI

\* strings.HasSuffix
HasSuffix(s, suffix) ==
    Len(s) >= Len(suffix) /\ SubSeq(s, Len(s) - Len(suffix) + 1, Len(s)) = suffix

\* The loop of NewSourceExport over archive.File from the i-th file on, name being
\* its variable of that name
RECURSIVE findCSV(_, _, _)
findCSV(files, i, name) ==
    IF i > Len(files) THEN name
    ELSE findCSV(files, i + 1,
                 IF HasSuffix(files[i].Name, <<".", "c", "s", "v">>)
                 THEN files[i].Name ELSE name)

\* NewSourceExport from the loop on; xCSV is the file that archive.Open(name) opens
NewSourceExport ==
    /\ source = "export"
    /\ xPc = "new"
    /\ xName' = findCSV(xArchive, 1, <<>>)
    /\ IF xName' = <<>>
       THEN xPc' = "rejected" /\ UNCHANGED xCSV
       ELSE /\ xPc' = "idle"
            /\ xCSV' = xArchive[CHOOSE i \in 1..Len(xArchive) : xArchive[i].Name = xName'].csv
    /\ UNCHANGED <<source, dateVars, xConfig, xArchive, xRow, xEvents, xKeys, xRet, apiVars>>

\* ReadAll returns (events, err); keys records which columns each row resolved to
xReturn(events, err, keys) ==
    /\ xRet' = Append(xRet, [events |-> events, err |-> err, keys |-> keys])
    /\ xPc' = "idle" /\ xRow' = 0 /\ xEvents' = <<>> /\ xKeys' = <<>>

\* ReadAll up to its loop: open the file and read the first row as headers
ReadAllHeaders ==
    /\ source = "export"
    /\ xPc = "idle"
    /\ Len(xRet) < MaxReadAlls
    /\ IF csvRead(xCSV, 1).err # Nil
       THEN xReturn(<<>>, ErrCSVRead("headers"), <<>>)
       ELSE /\ xPc' = "rows" /\ xRow' = 1 /\ xEvents' = <<>> /\ xKeys' = <<>>
            /\ UNCHANGED xRet
    /\ UNCHANGED <<source, dateVars, xConfig, xArchive, xName, xCSV, apiVars>>

\* The end of one iteration: c is what eventFromCSVRow returned
rowConverted(c) ==
    IF c.err # Nil THEN xReturn(<<>>, c.err, <<>>)
    ELSE /\ xEvents' = Append(xEvents, c.event)
         /\ xKeys' = Append(xKeys, [dateKey |-> c.dateKey, titleKey |-> c.titleKey])
         /\ xRow' = xRow + 1
         /\ UNCHANGED <<xPc, xRet>>

\* One iteration with the record read and its map m, which is ranged over
convertRow(headers, record, m) ==
    \E dateOrders \in (IF xConfig.DateProperty = <<>>
                       THEN ColumnOrders(dateColumnNames, m) ELSE {<<>>}),
       titleOrders \in ColumnOrders(titleColumnNames, m) :
        rowConverted(eventFromCSVRow(xConfig, headers, record, dateOrders, titleOrders))

\* One iteration, r being what csvReader.Read returned
rowRead(headers, r) ==
    IF r.err = [kind |-> "EOF"] THEN xReturn(xEvents, Nil, xKeys)
    ELSE IF r.err # Nil THEN xReturn(<<>>, ErrCSVRead("row"), <<>>)
    ELSE convertRow(headers, r.record, headersAndRecordToMap(headers, r.record).m)

\* One iteration of ReadAll's loop: read one row and convert it to an event
ReadAllRow ==
    /\ source = "export"
    /\ xPc = "rows"
    /\ rowRead(csvRead(xCSV, 1).record, csvRead(xCSV, xRow + 1))
    /\ UNCHANGED <<source, dateVars, xConfig, xArchive, xName, xCSV, apiVars>>

NextExport == NewSourceExport \/ ReadAllHeaders \/ ReadAllRow

SpecExport == InitExport /\ [][NextExport]_vars

(***************************************************************************)
(* SourceAPI: the remote service                                           *)
(***************************************************************************)
hDue == <<"D","u","e">>
hDone == <<"D","o","n","e">>
hRelated == <<"R","e","l","a","t","e","d">>

\* Database schemas: property name -> notion.DatabasePropertyType
Schemas ==
    { (hName :> "title") @@ (hWhen :> "date") @@ (hZebra :> "rich_text")
        @@ (hAlpha :> "select") @@ (hRelated :> "relation"),
      (hName :> "title") @@ (hWhen :> "date") @@ (hDue :> "date") @@ (hDone :> "checkbox"),
      (hName :> "title") @@ (hNotes :> "rich_text") }

\* A block as the client returns it. Type is the Go type of the value behind the
\* notion.Block interface: the client returns pointers (*notion.ParagraphBlock, ...),
\* which are the types convertBlockContentPlain switches on.
Block(type, richText, children) ==
    [Type |-> type, RichText |-> richText, Checked |-> FALSE, Children |-> children]

\* The block trees of the pages: block ID -> block, the root having the page's ID
BlockTrees ==
    [p1 |-> ("p1" :> Block("*Heading1Block", <<"In", "tro">>, <<"p1.1", "p1.2", "p1.3">>))
            @@ ("p1.1" :> Block("*ParagraphBlock", <<"hi">>, <<>>))
            @@ ("p1.2" :> Block("*BulletedListItemBlock", <<"a">>, <<>>))
            @@ ("p1.3" :> Block("*BulletedListItemBlock", <<"b">>, <<>>)),
     p2 |-> ("p2" :> Block("*ChildPageBlock", <<>>, <<>>)),
     p3 |-> ("p3" :> Block("*ChildPageBlock", <<>>, <<"p3.1", "p3.2", "p3.3">>))
            @@ ("p3.1" :> Block("*ToggleBlock", <<"t">>, <<"p3.1.1", "p3.1.2">>))
            @@ ("p3.1.1" :> [Block("*ToDoBlock", <<"y">>, <<>>) EXCEPT !.Checked = TRUE])
            @@ ("p3.1.2" :> Block("*QuoteBlock", <<"z">>, <<"p3.1.2.1">>))
            @@ ("p3.1.2.1" :> Block("*NumberedListItemBlock", <<"deep">>, <<>>))
            @@ ("p3.2" :> Block("*ChildPageBlock", <<>>, <<"p3.2.1">>))
            @@ ("p3.2.1" :> Block("*ParagraphBlock", <<"in sub">>, <<>>))
            @@ ("p3.3" :> Block("*DividerBlock", <<>>, <<>>))]

\* The date property of each page: a range, a start without an end, a range
PageDates ==
    [p1 |-> [Start |-> Date(2023, 1, 2, 15, 0, 0, 0), End |-> Date(2023, 1, 2, 17, 0, 0, 0)],
     p2 |-> [Start |-> Date(2023, 1, 3, 0, 0, 0, 0), End |-> Nil],
     p3 |-> [Start |-> Date(2023, 1, 4, 9, 0, 0, 0), End |-> Date(2023, 1, 5, 9, 0, 0, 0)]]

\* A property of a page as QueryDatabase returns it: Name is not populated
pageProperty(id, name, type) ==
    [Type |-> type, Name |-> <<>>,
     Title |-> IF type = "title" THEN <<"Event ", id>> ELSE <<>>,
     Date |-> IF type = "date" THEN (IF name = hWhen THEN PageDates[id] ELSE Nil) ELSE Nil,
     Checkbox |-> type = "checkbox" /\ id = "p2"]

\* A page (row) of the database under a schema
page(id, schema) ==
    [ID |-> id, URL |-> "https://www.notion.so/" \o id,
     Icon |-> IF id = "p1" THEN "E" ELSE "",
     Properties |-> [name \in DOMAIN schema |-> pageProperty(id, name, schema[name])]]

\* Largest number of rows of a database
MaxPages == 2

\* The rows of a database: distinct pages in some order
PageLists ==
    UNION { {ids \in [1..n -> DOMAIN BlockTrees] : \A i, j \in 1..n : i # j => ids[i] # ids[j]} :
            n \in 0..MaxPages }

\* The service may return fewer results per response than the page size asked for
PerResponse == {1, 2}

\* The rows a query returns: with a filter, those whose checkbox does not equal true
filteredRows(service, filter) ==
    IF filter = Nil THEN service.rows
    ELSE SelectSeq(service.rows, LAMBDA id : ~page(id, service.schema).Properties[filter].Checkbox)

\* One response of a paginated list: at most n of items after the cursor
listResponse(items, cursor, n) ==
    [Results |-> SubSeq(items, cursor + 1, IF cursor + n < Len(items) THEN cursor + n ELSE Len(items)),
     HasMore |-> cursor + n < Len(items),
     NextCursor |-> cursor + n]

\* client.QueryDatabase
QueryDatabase(service, query) ==
    listResponse(filteredRows(service, query.Filter), query.StartCursor, service.perResponse)

\* client.FindBlockChildrenByID: the children of block id of page root
FindBlockChildrenByID(service, root, id, cursor) ==
    listResponse(BlockTrees[root][id].Children, cursor, service.perResponse)

\* block.HasChildren()
HasChildren(block) == block.Children # <<>>

\* The requests for blocks that reading a page may send: any one of them may fail
BlockRequests(root) ==
    {<<"block", root>>}
    \cup UNION { {<<"children", id, c>> : c \in 0..(Len(BlockTrees[root][id].Children) - 1)} :
                 id \in DOMAIN BlockTrees[root] }

\* No request fails
NoFailure == <<>>

ErrFetch(request) == [kind |-> "fetch", arg |-> request]

(***************************************************************************)
(* SourceAPI: the plain text of a page                                     *)
(***************************************************************************)
\* richTextToString: the plain text of the runs, joined
RECURSIVE richTextToString(_)
richTextToString(rt) == IF rt = <<>> THEN "" ELSE Head(rt) \o richTextToString(Tail(rt))

\* convertBlockContentPlain, for the block types without a URL or child list of their own
convertBlockContentPlain(block) ==
    CASE block.Type = "*ParagraphBlock" -> richTextToString(block.RichText)
      [] block.Type = "*Heading1Block" -> "# " \o richTextToString(block.RichText)
      [] block.Type = "*Heading2Block" -> "## " \o richTextToString(block.RichText)
      [] block.Type = "*Heading3Block" -> "### " \o richTextToString(block.RichText)
      [] block.Type = "*BulletedListItemBlock" -> "- " \o richTextToString(block.RichText)
      [] block.Type = "*NumberedListItemBlock" -> "* " \o richTextToString(block.RichText)
      [] block.Type = "*ToDoBlock" ->
            (IF block.Checked THEN "[x] " ELSE "[ ] ") \o richTextToString(block.RichText)
      [] block.Type = "*ToggleBlock" -> "^ " \o richTextToString(block.RichText)
      [] block.Type = "*CalloutBlock" -> "! " \o richTextToString(block.RichText)
      [] block.Type = "*QuoteBlock" -> "> " \o richTextToString(block.RichText)
      [] block.Type = "*DividerBlock" -> "--------------------------"
      [] OTHER -> ""

NoContent == [content |-> <<>>, err |-> Nil]

RECURSIVE childrenPage(_, _, _, _, _, _)
RECURSIVE childrenBlocks(_, _, _, _, _, _)

\* getBlockChildrenContentPlain(id), for a block of page root; bad is the request
\* that fails, if any
getBlockChildrenContentPlain(service, root, id, bad) ==
    childrenPage(service, root, id, 0, <<>>, bad)

\* The end of one iteration over response.Results: sub is what the recursive call
\* for the block's children returned
blockDone(service, root, results, i, content, bad, sub) ==
    IF sub.err # Nil THEN [content |-> content, err |-> sub.err]
    ELSE childrenBlocks(service, root, results, i + 1, content \o sub.content, bad)

\* The loop over response.Results from the i-th block on
childrenBlocks(service, root, results, i, content, bad) ==
    IF i > Len(results) THEN [content |-> content, err |-> Nil]
    ELSE blockDone(service, root, results, i,
                   Append(content, convertBlockContentPlain(BlockTrees[root][results[i]])),
                   bad,
                   IF HasChildren(BlockTrees[root][results[i]])
                   THEN getBlockChildrenContentPlain(service, root, results[i], bad)
                   ELSE NoContent)

\* A pagination loop that stops after the first response
pageDoneFirstOnly(service, root, id, response, bad, r) == r

\* The end of one iteration of the pagination loop: r is what the loop over the
\* response's blocks made of content
pageDone(service, root, id, response, bad, r) ==
    IF r.err # Nil THEN r
    ELSE IF ~response.HasMore THEN r
    ELSE childrenPage(service, root, id, response.NextCursor, r.content, bad)

\* The pagination loop from query.StartCursor = cursor on
childrenPage(service, root, id, cursor, content, bad) ==
    IF bad = <<"children", id, cursor>>
    THEN [content |-> content, err |-> ErrFetch(bad)]
    ELSE pageDone(service, root, id, FindBlockChildrenByID(service, root, id, cursor), bad,
                  childrenBlocks(service, root,
                                 FindBlockChildrenByID(service, root, id, cursor).Results,
                                 1, content, bad))

\* The type switch of getPageContentPlain: its case notion.ChildPageBlock is the
\* struct type, which no block the client returns has
rootContent(block) ==
    IF block.Type = "ChildPageBlock" THEN <<>>
    ELSE <<convertBlockContentPlain(block)>>

\* getPageContentPlain from the children on
rootDone(content, sub) ==
    IF sub.err # Nil THEN [content |-> content, err |-> sub.err]
    ELSE [content |-> content \o sub.content, err |-> Nil]

getPageContentPlain(service, id, bad) ==
    IF bad = <<"block", id>> THEN [content |-> <<>>, err |-> ErrFetch(bad)]
    ELSE rootDone(rootContent(BlockTrees[id][id]),
                  IF HasChildren(BlockTrees[id][id])
                  THEN getBlockChildrenContentPlain(service, id, id, bad)
                  ELSE NoContent)

(***************************************************************************)
(* SourceAPI: events from pages                                            *)
(***************************************************************************)
ErrNoHideProperty == [kind |-> "ErrNoHideProperty"]

\* The orders in which a range statement may enumerate the keys of a map
rangeOrders(m) ==
    {o \in [1..Cardinality(DOMAIN m) -> DOMAIN m] :
        \A i, j \in 1..Cardinality(DOMAIN m) : i # j => o[i] # o[j]}

\* A count of the date properties whatever their name
datePropertiesOfAnyName(config, schema) ==
    Cardinality({name \in DOMAIN schema : schema[name] = "date"})

\* The loop of NewSourceAPI over database.Properties: the number of properties
\* counted as matching the date property, and as matching the hide property
datePropertyMatches(config, schema) ==
    Cardinality({name \in DOMAIN schema :
                    /\ schema[name] = "date"
                    /\ (config.DateProperty = <<>> \/ name = config.DateProperty)})

hidePropertyMatches(config, schema) ==
    Cardinality({name \in DOMAIN schema :
                    /\ schema[name] = "checkbox"
                    /\ config.HideProperty # <<>>
                    /\ name = config.HideProperty})

\* fmt.Errorf("%w: %s not in %v", err, property, propertyNames)
notIn(err, property, propertyNames) ==
    [kind |-> err.kind, property |-> property, names |-> propertyNames]

\* The checks of NewSourceAPI after the loop: the error returned, or nil.
\* propertyNames is what the loop appended, one name in each iteration, taken as the
\* set of them: their order in the message is that of the map iteration. The message
\* of either error is formatted with config.DateProperty.
newSourceError(config, schema, propertyNames) ==
    IF datePropertyMatches(config, schema) # 1
    THEN notIn(ErrNoDateProperty, config.DateProperty, propertyNames)
    ELSE IF config.HideProperty # <<>> /\ hidePropertyMatches(config, schema) # 1
    THEN notIn(ErrNoHideProperty, config.DateProperty, propertyNames)
    ELSE Nil

\* filter
filter(config) == IF config.HideProperty = <<>> THEN Nil ELSE config.HideProperty

\* initialQuery: StartCursor "" is the start of the list
initialQuery(config) == [Filter |-> filter(config), StartCursor |-> 0, PageSize |-> 100]

\* One iteration of the loop of eventFromPage; reading Start or End through a nil
\* pointer is a run-time panic
propertyStep(config, name, property, acc) ==
    CASE property.Type = "title" ->
            [acc EXCEPT !.title = richTextToString(property.Title)]
      [] property.Type = "date" /\ (config.DateProperty = <<>> \/ name = config.DateProperty) ->
            IF property.Date = Nil \/ property.Date.End = Nil
            THEN [acc EXCEPT !.panic = TRUE]
            ELSE [acc EXCEPT !.start = property.Date.Start, !.end = property.Date.End]
      [] property.Type = "relation" -> acc
      [] OTHER ->
            [acc EXCEPT !.list =
                Append(@, [property EXCEPT !.Name = IF @ = <<>> THEN name ELSE @])]

\* The loop of eventFromPage over the properties, enumerated in order
RECURSIVE propertiesRange(_, _, _, _, _)
propertiesRange(config, properties, order, i, acc) ==
    IF i > Len(order) \/ acc.panic THEN acc
    ELSE propertiesRange(config, properties, order, i + 1,
                         propertyStep(config, order[i], properties[order[i]], acc))

\* The list with p inserted before the first property whose name is not less
insertByName(sorted, p) ==
    SelectSeq(sorted, LAMBDA q : StringLess(q.Name, p.Name))
    \o <<p>>
    \o SelectSeq(sorted, LAMBDA q : ~StringLess(q.Name, p.Name))

\* The list left as the loop appended to it
listAsEnumerated(list) == list

\* sort.Slice of propertiesList by NameString
RECURSIVE sortSlice(_)
sortSlice(list) ==
    IF Len(list) <= 1 THEN list
    ELSE insertByName(sortSlice(Tail(list)), Head(list))

\* eventFromPage from the sort on; acc is what the loop left, c what
\* getPageContentPlain returns
pageEvent(pg, acc, c) ==
    IF acc.panic THEN [panic |-> TRUE, event |-> NoEvent, err |-> Nil]
    ELSE IF c.err # Nil THEN [panic |-> FALSE, event |-> NoEvent, err |-> c.err]
    ELSE [panic |-> FALSE,
          event |-> [ID |-> <<pg.ID, "@notion-ical">>,
                     Title |-> acc.title, Emoji |-> pg.Icon, URL |-> pg.URL,
                     Start |-> acc.start, End |-> acc.end,
                     Content |-> c.content,
                     Properties |-> sortSlice(acc.list)],
          err |-> Nil]

\* eventFromPage, its range statement enumerating the properties in order
eventFromPage(config, pg, order, c) ==
    pageEvent(pg,
              propertiesRange(config, pg.Properties, order, 1,
                              [title |-> "", start |-> ZeroTime, end |-> ZeroTime,
                               list |-> <<>>, panic |-> FALSE]),
              c)

(***************************************************************************)
(* SourceAPI: the state machine                                            *)
(***************************************************************************)
InitAPI ==
    /\ source = "api"
    /\ \E dp \in {<<>>, hWhen, hNotes}, hp \in {<<>>, hDone, hZebra} :
           aConfig = [DateProperty |-> dp, HideProperty |-> hp]
    /\ \E schema \in Schemas, rows \in PageLists, n \in PerResponse :
           aService = [schema |-> schema, rows |-> rows, perResponse |-> n]
    /\ aPc = "new" /\ aQuery = Nil /\ aResponse = Nil /\ aIdx = 0
    /\ aEvents = <<>> /\ aRet = NoResult /\ aLog = <<>> /\ aErr = Nil
    /\ IdleDate /\ IdleExport

\* A ReadAll that hands back the events built so far along with an error
aReturnBuilt(events, err) ==
    /\ aRet' = [events |-> IF err # Nil THEN aEvents ELSE events, err |-> err]
    /\ aPc' = "returned"
    /\ aEvents' = <<>> /\ aResponse' = Nil /\ aIdx' = 0

\* ReadAll returns (events, err)
aReturn(events, err) ==
    /\ aRet' = [events |-> events, err |-> err]
    /\ aPc' = "returned"
    /\ aEvents' = <<>> /\ aResponse' = Nil /\ aIdx' = 0

\* NewSourceAPI: FindDatabaseByID may fail; else the loop ranges over the properties
\* of the database and the matches are checked
NewSourceAPI ==
    /\ source = "api"
    /\ aPc = "new"
    /\ \E found \in BOOLEAN :
          /\ aErr' = IF ~found THEN ErrFetch(<<"database">>)
                     ELSE newSourceError(aConfig, aService.schema, DOMAIN aService.schema)
          /\ aPc' = IF aErr' # Nil THEN "rejected" ELSE "ready"
    /\ UNCHANGED <<source, dateVars, exportVars, aConfig, aService, aQuery, aResponse,
                   aIdx, aEvents, aRet, aLog>>

\* ReadAll up to its loop
ReadAllStart ==
    /\ source = "api"
    /\ aPc = "ready"
    /\ aEvents' = <<>>
    /\ aQuery' = initialQuery(aConfig)
    /\ aPc' = "query"
    /\ UNCHANGED <<source, dateVars, exportVars, aConfig, aService, aResponse, aIdx,
                   aRet, aLog, aErr>>

\* One QueryDatabase request of the loop of ReadAll, which may fail
ReadAllQuery ==
    /\ source = "api"
    /\ aPc = "query"
    /\ aLog' = Append(aLog, aQuery)
    /\ \E failed \in BOOLEAN :
          IF failed
          THEN aReturn(<<>>, ErrFetch(<<"query", aQuery.StartCursor>>))
          ELSE /\ aResponse' = QueryDatabase(aService, aQuery)
               /\ aIdx' = 0
               /\ aPc' = "pages"
               /\ UNCHANGED <<aEvents, aRet>>
    /\ UNCHANGED <<source, dateVars, exportVars, aConfig, aService, aQuery, aErr>>

\* The end of one iteration over response.Results: r is what eventFromPage did
pageConverted(r) ==
    IF r.panic
    THEN /\ aPc' = "panic"
         /\ UNCHANGED <<aEvents, aIdx, aResponse, aRet>>
    ELSE IF r.err # Nil THEN aReturn(<<>>, r.err)
    ELSE /\ aEvents' = Append(aEvents, r.event)
         /\ aIdx' = aIdx + 1
         /\ UNCHANGED <<aPc, aResponse, aRet>>

\* The page converted under every order of enumeration of its properties
pageRead(pg, c) ==
    \E order \in rangeOrders(pg.Properties) :
        pageConverted(eventFromPage(aConfig, pg, order, c))

\* One iteration of the loop of ReadAll over response.Results
ReadAllPage ==
    /\ source = "api"
    /\ aPc = "pages"
    /\ aIdx < Len(aResponse.Results)
    /\ \E bad \in BlockRequests(aResponse.Results[aIdx + 1]) \cup {NoFailure} :
          pageRead(page(aResponse.Results[aIdx + 1], aService.schema),
                   getPageContentPlain(aService, aResponse.Results[aIdx + 1], bad))
    /\ UNCHANGED <<source, dateVars, exportVars, aConfig, aService, aQuery, aLog, aErr>>

\* A loop of ReadAll that returns after its first response
ReadAllFirstResponseOnly ==
    /\ source = "api"
    /\ aPc = "pages"
    /\ aIdx = Len(aResponse.Results)
    /\ aReturn(aEvents, Nil)
    /\ UNCHANGED <<source, dateVars, exportVars, aConfig, aService, aQuery, aLog, aErr>>

\* The end of one iteration of the loop of ReadAll over the responses
ReadAllNext ==
    /\ source = "api"
    /\ aPc = "pages"
    /\ aIdx = Len(aResponse.Results)
    /\ IF ~aResponse.HasMore
       THEN aReturn(aEvents, Nil) /\ UNCHANGED aQuery
       ELSE /\ aQuery' = [aQuery EXCEPT !.StartCursor = aResponse.NextCursor]
            /\ aPc' = "query"
            /\ UNCHANGED <<aEvents, aResponse, aIdx, aRet>>
    /\ UNCHANGED <<source, dateVars, exportVars, aConfig, aService, aLog, aErr>>

NextAPI == NewSourceAPI \/ ReadAllStart \/ ReadAllQuery \/ ReadAllPage \/ ReadAllNext

SpecAPI == InitAPI /\ [][NextAPI]_vars

\* The loop of a running ReadAll moves on: to its next row, to its next request or
\* to its return. Every step of ReadAllQuery, ReadAllPage and ReadAllNext is this.
ReadAllMoves ==
    /\ aPc \in {"query", "pages"}
    /\ aPc' \in {"query", "pages", "returned", "panic"}
    /\ aIdx' \in 0..Len(aService.rows)
    /\ <<aPc', aIdx'>> # <<aPc, aIdx>>

\* A ReadAll that was called runs on: each request is answered, or fails, within its
\* timeout of 30 seconds
SpecAPIFair == SpecAPI /\ WF_<<aPc, aIdx>>(ReadAllMoves)

\* Either source
InitSources == InitExport \/ InitAPI

NextSources == NextExport \/ NextAPI

SpecSources == InitSources /\ [][NextSources]_vars

(***************************************************************************)
(* Properties of the date range parser                                     *)
(***************************************************************************)
hasArrow(r) == Len(SplitN2(r, ARROW)) = 2

\* C4: for every accepted "date -> date" string, the start is not after the end.
C4_StartNotAfterEnd ==
    (dateOut # NoResult /\ dateOut.err = Nil /\ hasArrow(dateIn.r))
        => ~Before(dateOut.end, dateOut.start)

\* C5: a date-only string in an accepted date format is accepted, and yields
\* start = end = midnight of that date in the zone.
C5_DateOnlyIsMidnight ==
    (dateOut # NoResult /\ dateIn.r \in {sSlashOnly, sLongOnly})
        => /\ dateOut.err = Nil
           /\ dateOut.start = Date(2023, 1, 2, 0, 0, 0, dateIn.zone)
           /\ dateOut.end = dateOut.start

\* What C6 says of a range whose left part parsed as left, and whose right part,
\* no full date, is right as a time of day
timeOnlyEndAsClaimed(left, right) ==
    IF right.err = Nil
    THEN /\ dateOut.err = Nil
         /\ dateOut.start = left.t
         /\ dateOut.end.year = left.t.year
         /\ dateOut.end.month = left.t.month
         /\ dateOut.end.day = left.t.day
         /\ dateOut.end.hour = right.t.hour
         /\ dateOut.end.min = right.t.min
         /\ dateOut.end.sec = right.t.sec
    ELSE /\ dateOut.err # Nil
         /\ dateOut.err.kind = "ErrParseDate"

\* C6: when the part right of the arrow parses as no full date but as a time of day,
\* the end is the left part's day at the right part's time of day, without error;
\* when it parses neither way, a date-parse error is returned. The example of the
\* specification, and two more, are stated with their values.
C6_TimeOnlyRightMerges ==
    /\ (/\ dateOut # NoResult
        /\ hasArrow(dateIn.r)
        /\ parseNotionDate(SplitN2(dateIn.r, ARROW)[1], dateIn.zone).err = Nil
        /\ parseNotionDate(SplitN2(dateIn.r, ARROW)[2], dateIn.zone).err # Nil)
           => timeOnlyEndAsClaimed(parseNotionDate(SplitN2(dateIn.r, ARROW)[1], dateIn.zone),
                                   parseNotionTime(SplitN2(dateIn.r, ARROW)[2], dateIn.zone))
    /\ (dateOut # NoResult /\ dateIn.r \in {Range(sLongPM, sTime5PM), Range(sLongPM, sTime17)})
           => /\ dateOut.err = Nil
              /\ dateOut.start = Date(2023, 1, 2, 15, 0, 0, dateIn.zone)
              /\ dateOut.end = Date(2023, 1, 2, 17, 0, 0, dateIn.zone)
    /\ (dateOut # NoResult /\ dateIn.r = Range(sLongLater, sTime0930))
           => /\ dateOut.err = Nil
              /\ dateOut.end = Date(2024, 3, 5, 9, 30, 0, dateIn.zone)

\* The example of the specification has been parsed
C6_Witness ==
    /\ dateOut # NoResult
    /\ dateIn.r = Range(sLongPM, sTime5PM)
    /\ dateOut.err = Nil
    /\ dateOut.end.hour = 17

(***************************************************************************)
(* Properties of SourceExport                                              *)
(***************************************************************************)
\* C1: two ReadAll calls over the same archive and configuration yield, row by row,
\* the same event ids.
C1_SameIdsOnRerun ==
    Len(xRet) >= 2
        => /\ Len(xRet[1].events) = Len(xRet[2].events)
           /\ \A i \in 1..Len(xRet[1].events) : xRet[1].events[i].ID = xRet[2].events[i].ID

\* The columns C2 allows findFirstColumn to resolve to under the synonyms names:
\* those equal to the earliest synonym that any column equals, and, when no column
\* equals a synonym, those containing the earliest synonym that any column contains
columnsOfSynonym(headers, q, exact) ==
    {headers[i] : i \in {j \in 1..Len(headers) :
        IF exact THEN ToLower(headers[j]) = q ELSE Contains(ToLower(headers[j]), q)}}

earliestSynonym(names, headers, exact) ==
    CHOOSE q \in 1..Len(names) :
        /\ columnsOfSynonym(headers, names[q], exact) # {}
        /\ \A k \in 1..(q - 1) : columnsOfSynonym(headers, names[k], exact) = {}

columnsAsClaimed(names, headers) ==
    IF \E q \in 1..Len(names) : columnsOfSynonym(headers, names[q], TRUE) # {}
    THEN columnsOfSynonym(headers, names[earliestSynonym(names, headers, TRUE)], TRUE)
    ELSE IF \E q \in 1..Len(names) : columnsOfSynonym(headers, names[q], FALSE) # {}
    THEN columnsOfSynonym(headers, names[earliestSynonym(names, headers, FALSE)], FALSE)
    ELSE {}

\* C2: with no date column configured, every row resolves its date column, and its
\* title column, by the order of the synonyms; the headers "Event Name", "When",
\* "Notes" resolve to the title "Event Name" and the date "When".
C2_ColumnsBySynonymOrder ==
    \A i \in 1..Len(xKeys) :
        /\ xKeys[i].titleKey \in columnsAsClaimed(titleColumnNames, xCSV.lines[1])
        /\ xConfig.DateProperty = <<>>
              => xKeys[i].dateKey \in columnsAsClaimed(dateColumnNames, xCSV.lines[1])
        /\ (xConfig.DateProperty = <<>> /\ xCSV.lines[1] = <<hEventName, hWhen, hNotes>>)
              => xKeys[i].titleKey = hEventName /\ xKeys[i].dateKey = hWhen

\* The columns of headers other than the two resolved ones, in header order
RECURSIVE otherColumns(_, _, _)
otherColumns(headers, keys, i) ==
    IF i > Len(headers) THEN <<>>
    ELSE (IF headers[i] \in {keys.dateKey, keys.titleKey} THEN <<>> ELSE <<i>>)
         \o otherColumns(headers, keys, i + 1)

propertiesAsClaimed(event, keys, headers, record, cols) ==
    /\ Len(event.Properties) = Len(cols)
    /\ \A k \in 1..Len(cols) :
          /\ event.Properties[k].name = headers[cols[k]]
          /\ event.Properties[k].value = record[cols[k]]

\* C8: the properties of every converted row are the columns other than the resolved
\* title and date columns, one (header, cell) pair each, verbatim, in header order.
C8_PropertiesAreOtherColumns ==
    \A i \in 1..Len(xEvents) :
        propertiesAsClaimed(xEvents[i], xKeys[i], xCSV.lines[1], xCSV.lines[i + 1],
                            otherColumns(xCSV.lines[1], xKeys[i], 1))

\* A row was converted whose other columns are not in alphabetical order
C8_Witness ==
    \E i \in 1..Len(xEvents) :
        /\ Len(xEvents[i].Properties) = 2
        /\ xEvents[i].Properties[1].name = hZebra
        /\ xEvents[i].Properties[2].name = hAlpha
        /\ xEvents[i].Properties[1].value = <<"Z", "1">>

(***************************************************************************)
(* Properties of both sources                                              *)
(***************************************************************************)
\* What ReadAll returned is nothing with an error, or all n events with none
allOrNothing(ret, n) ==
    IF ret.err # Nil THEN ret.events = <<>> ELSE Len(ret.events) = n

\* C3: ReadAll of either source has no partial result: with an error it returns no
\* events at all, however many were built before the failure, and without an error
\* it returns one event for every row of the file, or every row the query selects.
C3_NoPartialResult ==
    /\ \A i \in 1..Len(xRet) : allOrNothing(xRet[i], Len(xCSV.lines) - 1)
    /\ aPc = "returned" =>
          allOrNothing(aRet, Len(filteredRows(aService, filter(aConfig))))

\* C3: the second query of a ReadAll failed after the first response's page had been
\* converted to an event, and ReadAll returned the error and no event
C3_Witness ==
    /\ aPc = "returned"
    /\ aRet.err = ErrFetch(<<"query", 1>>)
    /\ aRet.events = <<>>
    /\ Len(aLog) = 2

(***************************************************************************)
(* Properties of SourceAPI                                                 *)
(***************************************************************************)
\* The date property eventFromPage takes start and end from
isResolvedDate(name) ==
    /\ aService.schema[name] = "date"
    /\ (aConfig.DateProperty = <<>> \/ name = aConfig.DateProperty)

\* The page has a resolved date property with a start and no end
startWithoutEnd(pg) ==
    \E name \in DOMAIN pg.Properties :
        /\ isResolvedDate(name)
        /\ pg.Properties[name].Date # Nil
        /\ pg.Properties[name].Date.End = Nil

\* The event of a page ends at or after its start, and at its start when the page's
\* date has no end
endAsClaimed(e) ==
    /\ ~Before(e.End, e.Start)
    /\ startWithoutEnd(page(e.ID[1], aService.schema)) => e.End = e.Start

\* C7: eventFromPage completes normally for a page whose resolved date has a start
\* and no end, the event ending at its start; and every event ends at or after its start.
C7_StartWithoutEndEndsAtStart ==
    /\ aPc = "panic" =>
          ~startWithoutEnd(page(aResponse.Results[aIdx + 1], aService.schema))
    /\ \A i \in 1..Len(aEvents) : endAsClaimed(aEvents[i])

\* The names of the properties of an event, in order
propertyNames(e) == [i \in 1..Len(e.Properties) |-> e.Properties[i].Name]

\* The fields that are not the title, the resolved date or a relation
remainingFields ==
    {name \in DOMAIN aService.schema :
        /\ aService.schema[name] \notin {"title", "relation"}
        /\ ~isResolvedDate(name)}

\* names lists each of the fields once, in ascending order
listsAscending(names, fields) ==
    /\ {names[i] : i \in 1..Len(names)} = fields
    /\ \A i, j \in 1..Len(names) : i < j => StringLess(names[i], names[j])

\* C9: the properties of every event of SourceAPI are one entry for each field of the
\* page other than the title, the resolved date and the relations, in ascending order
\* of name, in whichever order the fields of the page were enumerated.
C9_PropertiesSortedByName ==
    \A i \in 1..Len(aEvents) : listsAscending(propertyNames(aEvents[i]), remainingFields)

\* C9: a page with the fields Zebra and Alpha, a title, a date and a relation was
\* converted, and its properties are Alpha, Zebra
C9_Witness ==
    /\ aPc = "pages"
    /\ hRelated \in DOMAIN aService.schema
    /\ \E i \in 1..Len(aEvents) : propertyNames(aEvents[i]) = <<hAlpha, hZebra>>

\* The lines of block id and of its descendants, depth first, each block before its
\* children and the children in the order of the block's child list
RECURSIVE preOrderLines(_, _)
RECURSIVE preOrderOfAll(_, _, _)
preOrderLines(root, id) ==
    <<convertBlockContentPlain(BlockTrees[root][id])>>
    \o preOrderOfAll(root, BlockTrees[root][id].Children, 1)

preOrderOfAll(root, ids, i) ==
    IF i > Len(ids) THEN <<>>
    ELSE preOrderLines(root, ids[i]) \o preOrderOfAll(root, ids, i + 1)

\* The content of a page in pre-order, after what the page's own block contributes
contentAsClaimed(root) ==
    rootContent(BlockTrees[root][root])
    \o preOrderOfAll(root, BlockTrees[root][root].Children, 1)

\* C10: the content of every event is the depth-first pre-order of the page's block
\* tree, siblings in the order of the service, also when the children of a block
\* arrive over several responses; heading 1 "Intro" with children paragraph "hi",
\* bulleted "a", bulleted "b" gives "# Intro", "hi", "- a", "- b".
C10_ContentIsPreOrder ==
    \A i \in 1..Len(aEvents) :
        /\ aEvents[i].Content = contentAsClaimed(aEvents[i].ID[1])
        /\ aEvents[i].ID[1] = "p1" => aEvents[i].Content = <<"# Intro", "hi", "- a", "- b">>

\* C10: the example page and the page with nested blocks were both read, every child
\* list arriving one block per response
C10_Witness ==
    /\ aService.perResponse = 1
    /\ \E i, j \in 1..Len(aEvents) :
          /\ aEvents[i].Content = <<"# Intro", "hi", "- a", "- b">>
          /\ aEvents[j].ID[1] = "p3"
          /\ aEvents[j].Content =
                <<"", "^ t", "[x] y", "> z", "* deep", "", "in sub",
                  "--------------------------">>

\* The date property of the configuration names one date-typed field of the schema,
\* or none is configured and the schema has exactly one date-typed field
dateUnambiguous ==
    IF aConfig.DateProperty # <<>>
    THEN /\ aConfig.DateProperty \in DOMAIN aService.schema
         /\ aService.schema[aConfig.DateProperty] = "date"
    ELSE Cardinality({name \in DOMAIN aService.schema : aService.schema[name] = "date"}) = 1

\* The hide property of the configuration, if any, names a checkbox of the schema
hideResolved ==
    aConfig.HideProperty # <<>> =>
        /\ aConfig.HideProperty \in DOMAIN aService.schema
        /\ aService.schema[aConfig.HideProperty] = "checkbox"

\* The error lists every field name of the schema
listsFieldNames(err) == err.names = DOMAIN aService.schema

\* C11: NewSourceAPI returns a source only if the date property is unambiguous and a
\* configured hide property is a checkbox of that name; when the database is found and
\* either fails, it returns no source and ErrNoDateProperty or ErrNoHideProperty
\* listing the field names of the schema.
C11_SourceOnlyIfPropertiesResolve ==
    /\ aPc \notin {"new", "rejected"} => aErr = Nil /\ dateUnambiguous /\ hideResolved
    /\ aPc = "rejected" /\ aErr # ErrFetch(<<"database">>) =>
          /\ ~(dateUnambiguous /\ hideResolved)
          /\ aErr.kind = (IF dateUnambiguous THEN "ErrNoHideProperty" ELSE "ErrNoDateProperty")
          /\ listsFieldNames(aErr)

\* C11: a schema with two date fields and no date property configured was rejected
\* with ErrNoDateProperty
C11_Witness ==
    /\ aPc = "rejected"
    /\ aConfig.DateProperty = <<>>
    /\ hWhen \in DOMAIN aService.schema /\ hDue \in DOMAIN aService.schema
    /\ aService.schema[hWhen] = "date" /\ aService.schema[hDue] = "date"
    /\ aErr.kind = "ErrNoDateProperty"
    /\ listsFieldNames(aErr)

\* The response the service gave to the i-th request of the log
responseTo(i) == QueryDatabase(aService, aLog[i])

\* Each request carries the filter of the configuration; the first starts at the
\* beginning and each later one at the cursor of the response before it, which
\* reported more pages
requestsChained ==
    \A i \in 1..Len(aLog) :
        /\ aLog[i].Filter = filter(aConfig)
        /\ aLog[i].StartCursor = (IF i = 1 THEN 0 ELSE responseTo(i - 1).NextCursor)
        /\ i > 1 => responseTo(i - 1).HasMore

\* The rows of the responses to the first n requests, in the order received
RECURSIVE rowsReceived(_)
rowsReceived(n) ==
    IF n = 0 THEN <<>> ELSE rowsReceived(n - 1) \o responseTo(n).Results

\* A ReadAll that returned no error stopped at a response that reported no more
\* pages and returned one event for each row received, in the order received
successComplete ==
    aPc = "returned" /\ aRet.err = Nil =>
        /\ ~responseTo(Len(aLog)).HasMore
        /\ [i \in 1..Len(aRet.events) |-> aRet.events[i].ID[1]] = rowsReceived(Len(aLog))

\* No row the query selects has a date with a start and no end (see C7)
everyRowConverts ==
    \A i \in 1..Len(filteredRows(aService, filter(aConfig))) :
        ~startWithoutEnd(page(filteredRows(aService, filter(aConfig))[i], aService.schema))

\* C12: ReadAll sends its requests one after another, each after the first with the
\* cursor of the previous response and the same filter; it stops at the first
\* response that reports no more pages and then returns one event per row received,
\* in the order received; and a ReadAll that has begun returns.
C12_PagesInTurnUntilNoMore ==
    /\ [](requestsChained /\ successComplete)
    /\ (aPc = "query" /\ everyRowConverts) ~> (aPc = "returned")

\* C12: ReadAll returned two events without an error after two requests
C12_Witness ==
    /\ aPc = "returned"
    /\ aRet.err = Nil
    /\ Len(aLog) = 2
    /\ aLog[2].StartCursor = 1
    /\ Len(aRet.events) = 2

(***************************************************************************)
(* Properties of SourceExport's construction                               *)
(***************************************************************************)
\* The positions in the archive of the files whose name ends in .csv
csvPositions ==
    {i \in 1..Len(xArchive) : HasSuffix(xArchive[i].Name, <<".", "c", "s", "v">>)}

\* C13: NewSourceExport takes the first file of the archive, in its order, whose name
\* ends in .csv, and Name() and ReadAll() use that file; with no such file it fails.
C13_FirstCSVOfArchive ==
    xPc # "new" =>
        IF csvPositions = {} THEN xPc = "rejected"
        ELSE /\ xPc # "rejected"
             /\ xName = xArchive[CHOOSE i \in csvPositions : \A j \in csvPositions : i <= j].Name
             /\ xCSV = xArchive[CHOOSE i \in csvPositions : \A j \in csvPositions : i <= j].csv

(***************************************************************************)
(* Properties of child-page blocks                                         *)
(***************************************************************************)
\* The lines of block id and of its descendants in pre-order, a child-page block
\* having no line of its own
RECURSIVE linesSkippingChildPages(_, _)
RECURSIVE linesSkippingChildPagesOfAll(_, _, _)
linesSkippingChildPages(root, id) ==
    (IF BlockTrees[root][id].Type = "*ChildPageBlock" THEN <<>>
     ELSE <<convertBlockContentPlain(BlockTrees[root][id])>>)
    \o linesSkippingChildPagesOfAll(root, BlockTrees[root][id].Children, 1)

linesSkippingChildPagesOfAll(root, ids, i) ==
    IF i > Len(ids) THEN <<>>
    ELSE linesSkippingChildPages(root, ids[i])
         \o linesSkippingChildPagesOfAll(root, ids, i + 1)

\* C14: the content of an event has no entry, not even an empty line, for a
\* child-page block, be it the block of the page itself or a child of another block.
C14_ChildPageGivesNoLine ==
    \A i \in 1..Len(aEvents) :
        aEvents[i].Content = linesSkippingChildPages(aEvents[i].ID[1], aEvents[i].ID[1])

====
